---------------------------- MODULE Spec2Model ----------------------------
(***************************************************************************)
(* plugin.audio.squeezebox: the CherryPy compatibility layer               *)
(* (resources/lib/cherrypy/_cpcompat.py) and the MAC address helper of     *)
(* resources/lib/utils.py.                                                 *)
(*                                                                         *)
(* Python values are records [t, d]: t is the kind of the value ("bytes",  *)
(* "text", "int", "none", "generator", "json") and d its content; a byte   *)
(* string is a sequence of numbers 0..255, a text a sequence of code       *)
(* points.  The outcome of a call is a record [exc, val, msg, got]: exc is *)
(* "none" when the call returned val, and the exception class otherwise;   *)
(* msg is the format of the exception's message and got its argument.      *)
(***************************************************************************)
EXTENDS Integers, Sequences, FiniteSets, TLC

VARIABLES env, pc, bindings, loadError, call, threads, lastSet,
          mac_pc, count, mac, polls, sleptMs, lastReading, colonAt, macLog

vars == <<env, pc, bindings, loadError, call, threads, lastSet,
          mac_pc, count, mac, polls, sleptMs, lastReading, colonAt, macLog>>

compatVars == <<env, pc, bindings, loadError, call, threads, lastSet>>

macVars == <<mac_pc, count, mac, polls, sleptMs, lastReading, colonAt, macLog>>

---------------------------------------------------------------------------
(* Bounds of the model.                                                    *)

\* Longest native string handed to ntob / ntou / tonative, in tokens.
MaxTokens == 2

\* Longest query-string atom handed to unquote_qs, in tokens.
MaxAtomTokens == 2

---------------------------------------------------------------------------
(* Values and outcomes.                                                    *)

Bytes(d) == [t |-> "bytes", d |-> d]

Text(d) == [t |-> "text", d |-> d]

NoVal == [t |-> "novalue", d |-> <<>>]

Ret(v) == [exc |-> "none", val |-> v, msg |-> "", got |-> ""]

Raise(e, m, a) == [exc |-> e, val |-> NoVal, msg |-> m, got |-> a]

\* six.PY3 is sys.version_info[0] == 3.
PY3(e) == e.version[1] = 3

\* Tuple comparison sys.version_info >= (major, minor).
VersionAtLeast(v, major, minor) ==
    \/ v[1] > major
    \/ v[1] = major /\ v[2] >= minor

\* The kind of the runtime's native str.
NativeKind(py3) == IF py3 THEN "text" ELSE "bytes"

\* type(n).__name__
TypeName(v, py3) ==
    CASE v.t = "bytes" -> (IF py3 THEN "bytes" ELSE "str")
      [] v.t = "text" -> (IF py3 THEN "str" ELSE "unicode")
      [] v.t = "int" -> "int"
      [] v.t = "none" -> "NoneType"
      [] OTHER -> v.t

---------------------------------------------------------------------------
(* The codecs behind str.encode / bytes.decode.                            *)

RECURSIVE SeqAll(_, _, _)
\* Every element of s lies in lo..hi.
SeqAll(s, lo, hi) ==
    IF s = <<>> THEN TRUE
    ELSE Head(s) >= lo /\ Head(s) <= hi /\ SeqAll(Tail(s), lo, hi)

RECURSIVE Utf8Enc(_)
Utf8Enc(cps) ==
    IF cps = <<>> THEN <<>>
    ELSE LET c == Head(cps)
             u == IF c < 128 THEN <<c>>
                  ELSE IF c < 2048 THEN <<192 + (c \div 64), 128 + (c % 64)>>
                  ELSE <<224 + (c \div 4096), 128 + ((c \div 64) % 64), 128 + (c % 64)>>
         IN u \o Utf8Enc(Tail(cps))

IsSurrogate(c) == c >= 55296 /\ c <= 57343

\* n.encode(encoding) of a text with code points below 65536.
Encode(cps, enc) ==
    CASE enc = "ISO-8859-1" ->
            (IF SeqAll(cps, 0, 255) THEN Ret(Bytes(cps))
             ELSE Raise("UnicodeEncodeError", "", ""))
      [] enc = "ascii" ->
            (IF SeqAll(cps, 0, 127) THEN Ret(Bytes(cps))
             ELSE Raise("UnicodeEncodeError", "", ""))
      [] enc = "utf-8" ->
            (IF \E i \in 1..Len(cps) : IsSurrogate(cps[i])
             THEN Raise("UnicodeEncodeError", "", "")
             ELSE Ret(Bytes(Utf8Enc(cps))))
      [] OTHER -> Raise("LookupError", "", "")

IsCont(b) == b >= 128 /\ b <= 191

\* The first UTF-8 unit of bs: [n, ok, cp]; n bytes are consumed, and when
\* ok is FALSE they are the maximal ill-formed subpart.
Utf8Unit(bs) ==
    LET b1 == bs[1]
        has2 == Len(bs) >= 2
        has3 == Len(bs) >= 3
    IN  IF b1 < 128 THEN [n |-> 1, ok |-> TRUE, cp |-> b1]
        ELSE IF b1 >= 194 /\ b1 <= 223 THEN
            IF has2 /\ IsCont(bs[2])
            THEN [n |-> 2, ok |-> TRUE, cp |-> (b1 - 192) * 64 + (bs[2] - 128)]
            ELSE [n |-> 1, ok |-> FALSE, cp |-> 0]
        ELSE IF b1 >= 224 /\ b1 <= 239 THEN
            LET lo == IF b1 = 224 THEN 160 ELSE 128
                hi == IF b1 = 237 THEN 159 ELSE 191
            IN  IF ~(has2 /\ bs[2] >= lo /\ bs[2] <= hi)
                THEN [n |-> 1, ok |-> FALSE, cp |-> 0]
                ELSE IF ~(has3 /\ IsCont(bs[3]))
                THEN [n |-> 2, ok |-> FALSE, cp |-> 0]
                ELSE [n |-> 3, ok |-> TRUE,
                      cp |-> (b1 - 224) * 4096 + (bs[2] - 128) * 64 + (bs[3] - 128)]
        ELSE [n |-> 1, ok |-> FALSE, cp |-> 0]

\* The first unit of bs under a one-byte codec whose bytes are 0..top.
ByteUnit(bs, top) ==
    IF bs[1] <= top THEN [n |-> 1, ok |-> TRUE, cp |-> bs[1]]
    ELSE [n |-> 1, ok |-> FALSE, cp |-> 0]

\* The first UTF-16-LE unit of bs (the model's bytes form no surrogates).
Utf16Unit(bs) ==
    IF Len(bs) >= 2 THEN [n |-> 2, ok |-> TRUE, cp |-> bs[1] + 256 * bs[2]]
    ELSE [n |-> 1, ok |-> FALSE, cp |-> 0]

CodecUnit(bs, enc) ==
    CASE enc = "utf-8" -> Utf8Unit(bs)
      [] enc = "utf-16-le" -> Utf16Unit(bs)
      [] enc = "ascii" -> ByteUnit(bs, 127)
      [] OTHER -> ByteUnit(bs, 255)

Drop(s, n) == SubSeq(s, n + 1, Len(s))

RECURSIVE DecodeUnits(_, _, _)
\* The code points of bs under the errors policy; ok is FALSE once a unit
\* failed under the strict policy.
DecodeUnits(bs, enc, errors) ==
    IF bs = <<>> THEN [ok |-> TRUE, d |-> <<>>]
    ELSE LET u == CodecUnit(bs, enc)
             rest == DecodeUnits(Drop(bs, u.n), enc, errors)
         IN  IF u.ok THEN [ok |-> rest.ok, d |-> <<u.cp>> \o rest.d]
             ELSE IF errors = "replace" THEN [ok |-> rest.ok, d |-> <<65533>> \o rest.d]
             ELSE IF errors = "ignore" THEN rest
             ELSE [ok |-> FALSE, d |-> <<>>]

KnownCodecs == {"ISO-8859-1", "ascii", "utf-8", "utf-16-le"}

\* b.decode(encoding, errors)
Decode(bs, enc, errors) ==
    IF enc \notin KnownCodecs THEN Raise("LookupError", "", "")
    ELSE LET r == DecodeUnits(bs, enc, errors)
         IN  IF r.ok THEN Ret(Text(r.d)) ELSE Raise("UnicodeDecodeError", "", "")

\* bytes.decode on Python 3, which returns the empty text for empty bytes
\* before it looks the codec up.
DecodePy3(bs, enc, errors) ==
    IF bs = <<>> THEN Ret(Text(<<>>)) ELSE Decode(bs, enc, errors)

---------------------------------------------------------------------------
(* ntob / ntou / tonative / assert_native.                                 *)

IsDigit(c) == c >= 48 /\ c <= 57

IsHex(c) == IsDigit(c) \/ (c >= 97 /\ c <= 102) \/ (c >= 65 /\ c <= 70)

\* [0-9a-zA-Z]
IsAlnum(c) == IsDigit(c) \/ (c >= 97 /\ c <= 122) \/ (c >= 65 /\ c <= 90)

HexVal(c) == IF IsDigit(c) THEN c - 48 ELSE IF c >= 97 THEN c - 87 ELSE c - 55

RECURSIVE EscapeSub(_)
\* re.sub(r'\\u([0-9a-zA-Z]{4})', lambda m: unichr(int(m.group(1), 16)), s):
\* int() raises ValueError on a group that is not hexadecimal.
EscapeSub(s) ==
    IF s = <<>> THEN [ok |-> TRUE, d |-> <<>>]
    ELSE IF /\ Len(s) >= 6
            /\ s[1] = 92
            /\ s[2] = 117
            /\ \A i \in 3..6 : IsAlnum(s[i])
    THEN IF \A i \in 3..6 : IsHex(s[i])
         THEN LET rest == EscapeSub(Drop(s, 6))
                  cp == HexVal(s[3]) * 4096 + HexVal(s[4]) * 256
                        + HexVal(s[5]) * 16 + HexVal(s[6])
              IN  [ok |-> rest.ok, d |-> <<cp>> \o rest.d]
         ELSE [ok |-> FALSE, d |-> <<>>]
    ELSE LET rest == EscapeSub(Tail(s))
         IN  [ok |-> rest.ok, d |-> <<Head(s)>> \o rest.d]

\* The TypeError of assert_native, with its message "... (got %s)".
NotNative(n, py3) ==
    Raise("TypeError", "n must be a native str (got %s)", TypeName(n, py3))

\* assert_native with the check widened to every string kind.
AssertNativeAnyString(n, py3) ==
    IF n.t \in {"bytes", "text"} THEN Ret(NoVal) ELSE NotNative(n, py3)

\* assert_native with the expected type's name in the message.
AssertNativeWrongName(n, py3) ==
    IF n.t = NativeKind(py3) THEN Ret(NoVal)
    ELSE Raise("TypeError", "n must be a native str (got %s)", "str")

\* assert_native(n): isinstance(n, str) under the runtime py3.
AssertNative(n, py3) ==
    IF n.t = NativeKind(py3) THEN Ret(NoVal) ELSE NotNative(n, py3)

\* ntob as defined when six.PY3 holds.
NtobPy3(n, enc, py3) ==
    LET a == AssertNative(n, py3)
    IN  IF a.exc # "none" THEN a ELSE Encode(n.d, enc)

\* ntou as defined when six.PY3 holds.
NtouPy3(n, enc, py3) ==
    LET a == AssertNative(n, py3)
    IN  IF a.exc # "none" THEN a ELSE Ret(n)

\* tonative as defined when six.PY3 holds.
TonativePy3(n, enc) ==
    IF n.t = "bytes" THEN DecodePy3(n.d, enc, "strict") ELSE Ret(n)

\* ntob of the Python 2 branch.
NtobPy2(n, enc, py3) ==
    LET a == AssertNative(n, py3)
    IN  IF a.exc # "none" THEN a ELSE Ret(n)

\* ntou of the Python 2 branch, with its 'escape' encoding.
NtouPy2(n, enc, py3) ==
    LET a == AssertNative(n, py3)
    IN  IF a.exc # "none" THEN a
        ELSE IF enc = "escape"
        THEN LET r == EscapeSub(n.d)
             IN  IF r.ok THEN Ret(Text(r.d)) ELSE Raise("ValueError", "", "")
        ELSE Decode(n.d, enc, "strict")

\* tonative of the Python 2 branch.
TonativePy2(n, enc) ==
    IF n.t = "text" THEN Encode(n.d, enc) ELSE Ret(n)

\* The three names as bound: variant is "py3" or "py2".
Ntob(variant, n, enc, py3) ==
    IF variant = "py3" THEN NtobPy3(n, enc, py3) ELSE NtobPy2(n, enc, py3)

Ntou(variant, n, enc, py3) ==
    IF variant = "py3" THEN NtouPy3(n, enc, py3) ELSE NtouPy2(n, enc, py3)

Tonative(variant, n, enc) ==
    IF variant = "py3" THEN TonativePy3(n, enc) ELSE TonativePy2(n, enc)

---------------------------------------------------------------------------
(* unquote_qs.                                                             *)

RECURSIVE UnquoteToBytes(_)
\* urllib's unquote of a byte string: every %XX with two hexadecimal digits
\* becomes the byte XX, any other % stays.
UnquoteToBytes(s) ==
    IF s = <<>> THEN <<>>
    ELSE IF s[1] = 37 /\ Len(s) >= 3 /\ IsHex(s[2]) /\ IsHex(s[3])
    THEN <<HexVal(s[2]) * 16 + HexVal(s[3])>> \o UnquoteToBytes(Drop(s, 3))
    ELSE <<s[1]>> \o UnquoteToBytes(Tail(s))

\* atom.replace('+', ' ')
PlusToSpace(s) == [i \in 1..Len(s) |-> IF s[i] = 43 THEN 32 ELSE s[i]]

RECURSIVE RunLen(_, _)
\* Length of the longest prefix of s that is ASCII (ascii) or not (~ascii).
RunLen(s, ascii) ==
    IF s = <<>> \/ (Head(s) < 128) # ascii THEN 0
    ELSE 1 + RunLen(Tail(s), ascii)

RECURSIVE UnquoteRuns(_, _, _)
\* urllib.parse.unquote on a text holding a %: every run of ASCII characters
\* is unquoted to bytes and decoded, the runs between them are kept.
UnquoteRuns(s, enc, errors) ==
    IF s = <<>> THEN Ret(Text(<<>>))
    ELSE LET ascii == Head(s) < 128
             k == RunLen(s, ascii)
             run == SubSeq(s, 1, k)
             first == IF ascii THEN DecodePy3(UnquoteToBytes(run), enc, errors)
                      ELSE Ret(Text(run))
         IN  IF first.exc # "none" THEN first
             ELSE LET rest == UnquoteRuns(Drop(s, k), enc, errors)
                  IN  IF rest.exc # "none" THEN rest
                      ELSE Ret(Text(first.val.d \o rest.val.d))

\* urllib.parse.unquote(string, encoding=, errors=)
ParseUnquotePy3(s, enc, errors) ==
    IF \A i \in 1..Len(s) : s[i] # 37 THEN Ret(Text(s))
    ELSE UnquoteRuns(s, enc, errors)

\* unquote_qs where urllib.parse imports.
UnquoteQsPy3(atom, enc, errors) ==
    ParseUnquotePy3(PlusToSpace(atom), enc, errors)

\* unquote_qs of the Python 2 branch.
UnquoteQsPy2(atom, enc, errors) ==
    Decode(UnquoteToBytes(PlusToSpace(atom)), enc, errors)

UnquoteQs(variant, atom, enc, errors) ==
    IF variant = "py3" THEN UnquoteQsPy3(atom, enc, errors)
    ELSE UnquoteQsPy2(atom, enc, errors)

---------------------------------------------------------------------------
(* base64_decode.                                                          *)

\* The value of a character of the base64 alphabet.
B64Val(c) ==
    IF c >= 65 /\ c <= 90 THEN c - 65
    ELSE IF c >= 97 /\ c <= 122 THEN c - 71
    ELSE IF IsDigit(c) THEN c + 4
    ELSE IF c = 43 THEN 62 ELSE 63

RECURSIVE B64Quads(_)
\* base64.decodebytes / decodestring of well-formed alphabet characters:
\* four characters give three bytes, less with = padding; a length that is
\* no multiple of four is binascii.Error (incorrect padding).
B64Quads(s) ==
    IF s = <<>> THEN [ok |-> TRUE, d |-> <<>>]
    ELSE IF Len(s) < 4 THEN [ok |-> FALSE, d |-> <<>>]
    ELSE LET v1 == B64Val(s[1])
             v2 == B64Val(s[2])
             v3 == B64Val(s[3])
             v4 == B64Val(s[4])
             b1 == v1 * 4 + (v2 \div 16)
             b2 == (v2 % 16) * 16 + (v3 \div 4)
             b3 == (v3 % 4) * 64 + v4
             out == IF s[3] = 61 THEN <<b1>>
                    ELSE IF s[4] = 61 THEN <<b1, b2>>
                    ELSE <<b1, b2, b3>>
             rest == B64Quads(Drop(s, 4))
         IN  [ok |-> rest.ok, d |-> out \o rest.d]

\* base64_decode(n, encoding); str is six.text_type exactly when py3.
Base64Decode(n, enc, py3) ==
    LET b == IF n.t = "text" THEN Encode(n.d, enc) ELSE Ret(n)
    IN  IF b.exc # "none" THEN b
        ELSE LET raw == B64Quads(b.val.d)
             IN  IF ~raw.ok THEN Raise("binascii.Error", "Incorrect padding", "")
                 ELSE IF py3 THEN DecodePy3(raw.d, enc, "strict")
                 ELSE Ret(Bytes(raw.d))

---------------------------------------------------------------------------
(* random20.                                                               *)

\* os.urandom(20)
RandomBytes == 20

HexDigit(v) == IF v < 10 THEN 48 + v ELSE 87 + v

RECURSIVE Hexlify(_)
\* binascii.hexlify
Hexlify(bs) ==
    IF bs = <<>> THEN <<>>
    ELSE <<HexDigit(Head(bs) \div 16), HexDigit(Head(bs) % 16)>> \o Hexlify(Tail(bs))

\* random20() on the entropy the OS returned.
Random20(entropy) == Decode(Hexlify(entropy), "ascii", "strict")

---------------------------------------------------------------------------
(* JSON: the backend's codec and json_decode / _json_encode / json_encode. *)

JsonDoc(d) == [t |-> "json", d |-> d]

\* A value no JSON encoder can serialise.
Unserialisable == [t |-> "object", d |-> <<>>]

\* The texts {"k": 1}, [] and 1.
DictK1 == <<123, 34, 107, 34, 58, 32, 49, 125>>

EmptyList == <<91, 93>>

One == <<49>>

ValidJsonTexts == {DictK1, EmptyList, One}

\* JSONEncoder().iterencode(value): the chunks the backend yields in order,
\* and the error it raises once they are consumed.
BackendIterEncode(v) ==
    IF v.t # "json" THEN [fail |-> "TypeError", chunks |-> <<>>]
    ELSE IF v.d = DictK1
    THEN [fail |-> "", chunks |-> <<<<123>>, <<34, 107, 34>>, <<58, 32>>, <<49>>, <<125>>>>]
    ELSE [fail |-> "", chunks |-> <<v.d>>]

\* JSONDecoder().decode(s)
BackendDecode(s) ==
    IF s.d \in ValidJsonTexts THEN Ret(JsonDoc(s.d))
    ELSE Raise("ValueError", "", "")

NoJson == Raise("ValueError", "No JSON library is available", "")

\* json_decode(s) as bound.
JsonDecode(binding, s) ==
    IF binding = "stub" THEN NoJson ELSE BackendDecode(s)

NoGen ==
    [active |-> FALSE, wrapped |-> FALSE, source |-> <<>>, pending |-> <<>>,
     produced |-> <<>>, fail |-> ""]

\* The generator a call of the wrapper json_encode returns: nothing of its
\* body has run, so a failing _json_encode shows at the first next().
WrapperGen(inner, v) ==
    LET b == BackendIterEncode(v)
    IN  IF inner = "stub"
        THEN [NoGen EXCEPT !.active = TRUE, !.wrapped = TRUE, !.fail = "ValueError"]
        ELSE [NoGen EXCEPT !.active = TRUE, !.wrapped = TRUE, !.source = b.chunks,
                           !.pending = b.chunks, !.fail = b.fail]

\* The backend's own generator.
BackendGen(v) ==
    LET b == BackendIterEncode(v)
    IN  [NoGen EXCEPT !.active = TRUE, !.source = b.chunks, !.pending = b.chunks,
                      !.fail = b.fail]

GeneratorObject == [t |-> "generator", d |-> <<>>]

\* json_encode(value) as bound: outer is json_encode, inner is _json_encode.
JsonEncode(outer, inner, v) ==
    IF outer = "wrapper" THEN [res |-> Ret(GeneratorObject), gen |-> WrapperGen(inner, v)]
    ELSE IF inner = "stub" THEN [res |-> NoJson, gen |-> NoGen]
    ELSE [res |-> Ret(GeneratorObject), gen |-> BackendGen(v)]

\* The wrapper yielding the backend's chunk without encoding it.
YieldOfUnencoded(g, py3) == [t |-> NativeKind(py3), d |-> Head(g.pending)]

\* What one step of the generator yields from its next backend chunk.
YieldOf(g, py3) ==
    IF g.wrapped THEN Encode(Head(g.pending), "utf-8").val
    ELSE [t |-> NativeKind(py3), d |-> Head(g.pending)]

\* next(i) on a generator of json_encode: variant "builtin" is the built-in,
\* "method" calls i.next(), which Python 3 generators do not have.
NextItem(variant, g, py3) ==
    IF variant = "method" /\ py3
    THEN [res |-> Raise("AttributeError", "", ""), gen |-> g]
    ELSE IF g.pending # <<>>
    THEN [res |-> Ret(YieldOf(g, py3)),
          gen |-> [g EXCEPT !.pending = Tail(g.pending),
                            !.produced = Append(g.produced, YieldOf(g, py3))]]
    ELSE IF g.fail = "ValueError"
    THEN [res |-> NoJson, gen |-> [g EXCEPT !.active = FALSE]]
    ELSE IF g.fail # ""
    THEN [res |-> Raise(g.fail, "", ""), gen |-> [g EXCEPT !.active = FALSE]]
    ELSE [res |-> Raise("StopIteration", "", ""), gen |-> [g EXCEPT !.active = FALSE]]

---------------------------------------------------------------------------
(* get_daemon / set_daemon.  A thread object holds its daemon flag; on a   *)
(* runtime whose Thread has no daemon property, t.daemon = val only makes  *)
(* an instance attribute.                                                  *)

Bool(b) == [t |-> "bool", d |-> IF b THEN <<1>> ELSE <<0>>]

BoolStr(b) == IF b THEN "True" ELSE "False"

\* hasattr(threading.Thread, "daemon"): the property came with Python 2.6.
HasDaemonProperty(e) == VersionAtLeast(e.version, 2, 6)

\* t.daemon
DaemonAttrGet(thr, hasProp) ==
    IF hasProp THEN Ret(Bool(thr.daemonic))
    ELSE IF thr.hasAttr THEN Ret(Bool(thr.attr))
    ELSE Raise("AttributeError", "", "")

\* t.daemon = val
DaemonAttrSet(thr, val, hasProp) ==
    IF hasProp THEN [thr EXCEPT !.daemonic = val]
    ELSE [thr EXCEPT !.hasAttr = TRUE, !.attr = val]

\* get_daemon(t) as bound.
GetDaemon(variant, thr, hasProp) ==
    IF variant = "property" THEN DaemonAttrGet(thr, hasProp)
    ELSE Ret(Bool(thr.daemonic))

\* set_daemon with the value dropped.
SetDaemonNoop(variant, thr, val, hasProp) == thr

\* set_daemon(t, val) as bound: the thread object afterwards.
SetDaemon(variant, thr, val, hasProp) ==
    IF variant = "property" THEN DaemonAttrSet(thr, val, hasProp)
    ELSE [thr EXCEPT !.daemonic = val]

---------------------------------------------------------------------------
(* The inputs of the calls.                                                *)

RECURSIVE Concats(_, _)
\* The concatenations of at most n of the tokens.
Concats(tokens, n) ==
    IF n = 0 THEN {<<>>}
    ELSE LET p == Concats(tokens, n - 1)
         IN  p \cup {s \o t : s \in p, t \in tokens}

\* The six characters backslash, u, 0, 0, e, 9.
EscapeToken == <<92, 117, 48, 48, 101, 57>>

\* A, the ISO-8859-1 byte of e-acute, the two UTF-8 bytes of e-acute.
ByteTokens == {<<65>>, <<233>>, <<195>>, <<169>>, EscapeToken}

\* A, e-acute, the euro sign.
TextTokens == {<<65>>, <<233>>, <<8364>>, EscapeToken}

PyValues ==
    {Bytes(d) : d \in Concats(ByteTokens, MaxTokens)}
    \cup {Text(d) : d \in Concats(TextTokens, MaxTokens)}
    \cup {[t |-> "int", d |-> <<>>], [t |-> "none", d |-> <<>>]}

TextEncodings == {"ISO-8859-1", "utf-8", "ascii", "escape"}

\* a, +, %20, %2B, %C3, %A9 and a lone %.
AtomTokens ==
    {<<97>>, <<43>>, <<37, 50, 48>>, <<37, 50, 66>>, <<37, 67, 51>>, <<37, 65, 57>>, <<37>>}

Atoms == Concats(AtomTokens, MaxAtomTokens)

QsEncodings == {"ISO-8859-1", "utf-8", "ascii", "utf-16-le"}

ErrorPolicies == {"strict", "replace", "ignore"}

\* QQ== (A), 6Q== (0xE9), w6k= (0xC3 0xA9), QUJD (ABC) and a truncated Q.
B64Texts ==
    {<<81, 81, 61, 61>>, <<54, 81, 61, 61>>, <<119, 54, 107, 61>>, <<81, 85, 74, 68>>, <<81>>}

B64Inputs == {Bytes(d) : d \in B64Texts} \cup {Text(d) : d \in B64Texts}

JsonValues == {JsonDoc(d) : d \in ValidJsonTexts} \cup {Unserialisable}

\* The valid texts and a lone {.
JsonTexts == ValidJsonTexts \cup {<<123>>}

EntropySamples ==
    {[i \in 1..RandomBytes |-> b] : b \in {0, 171, 255}}
    \cup {[i \in 1..RandomBytes |-> (i * 13) % 256]}

Threads == {"t1", "t2"}

---------------------------------------------------------------------------
(* Module load of _cpcompat.py: one step per block of bindings.            *)

Versions == {<<2, 5>>, <<2, 6>>, <<3, 0>>, <<3, 8>>}

\* The runtimes: the version, whether simplejson imports, and whether
\* builtins and http.cookies / http.client / http.server import (always on
\* Python 3, on Python 2 only with a backport installed).
Envs ==
    {e \in [version : Versions, simplejson : BOOLEAN, py3modules : BOOLEAN] :
        PY3(e) => e.py3modules}

Unbound ==
    [ntob |-> "unbound", ntou |-> "unbound", tonative |-> "unbound",
     base64 |-> "unbound", unquote |-> "unbound", get_daemon |-> "unbound",
     set_daemon |-> "unbound", unquote_qs |-> "unbound", json |-> "unbound",
     json_decode |-> "unbound", _json_encode |-> "unbound",
     json_encode |-> "unbound", next |-> "unbound"]

Idle ==
    [op |-> "idle", arg |-> NoVal, enc |-> "", errors |-> "", thr |-> "",
     res |-> Ret(NoVal), gen |-> NoGen]

NewThread(d) == [daemonic |-> d, hasAttr |-> FALSE, attr |-> FALSE]

MacIdle ==
    /\ mac_pc = "idle"
    /\ count = 0
    /\ mac = <<>>
    /\ polls = 0
    /\ sleptMs = 0
    /\ lastReading = <<>>
    /\ colonAt = 0
    /\ macLog = "none"

Init ==
    /\ env \in Envs
    /\ pc = "text"
    /\ bindings = Unbound
    /\ loadError = "none"
    /\ call = Idle
    /\ threads = [t \in Threads |-> NewThread(t = "t2")]
    /\ lastSet = [t \in Threads |-> "none"]
    /\ MacIdle

\* Lines 25-84: the text family follows six.PY3.
LoadText ==
    /\ pc = "text"
    /\ LET v == IF PY3(env) THEN "py3" ELSE "py2"
       IN  bindings' = [bindings EXCEPT !.ntob = v, !.ntou = v, !.tonative = v]
    /\ pc' = "base64"
    /\ UNCHANGED <<env, loadError, call, threads, lastSet, macVars>>

\* Lines 91-98: base64.decodebytes exists from Python 3.1.
LoadBase64 ==
    /\ pc = "base64"
    /\ bindings' = [bindings EXCEPT !.base64 =
            IF VersionAtLeast(env.version, 3, 1) THEN "decodebytes" ELSE "decodestring"]
    /\ pc' = "imports"
    /\ UNCHANGED <<env, loadError, call, threads, lastSet, macVars>>

\* Lines 131-164: the urllib names, then the unguarded imports of builtins
\* and http.*, whose ImportError ends the load.
LoadImports ==
    /\ pc = "imports"
    /\ bindings' = [bindings EXCEPT !.unquote =
            IF PY3(env) THEN "urllib.request" ELSE "urllib"]
    /\ IF env.py3modules
       THEN pc' = "daemon" /\ loadError' = loadError
       ELSE pc' = "failed" /\ loadError' = "ImportError"
    /\ UNCHANGED <<env, call, threads, lastSet, macVars>>

\* Lines 187-199: both accessors from the branch hasattr() selects.
DaemonBindings(e) ==
    IF HasDaemonProperty(e) THEN [get |-> "property", set |-> "property"]
    ELSE [get |-> "legacy", set |-> "legacy"]

LoadDaemon ==
    /\ pc = "daemon"
    /\ bindings' = [bindings EXCEPT !.get_daemon = DaemonBindings(env).get,
                                    !.set_daemon = DaemonBindings(env).set]
    /\ pc' = "unquote_qs"
    /\ UNCHANGED <<env, loadError, call, threads, lastSet, macVars>>

\* Lines 201-215: urllib.parse imports on Python 3 only.
LoadUnquoteQs ==
    /\ pc = "unquote_qs"
    /\ bindings' = [bindings EXCEPT !.unquote_qs = IF PY3(env) THEN "py3" ELSE "py2"]
    /\ pc' = "json"
    /\ UNCHANGED <<env, loadError, call, threads, lastSet, macVars>>

\* The standard library preferred to simplejson.
JsonBackendStdFirst(e) ==
    IF VersionAtLeast(e.version, 2, 6) THEN "json"
    ELSE IF e.simplejson THEN "simplejson"
    ELSE "None"

\* Lines 217-230: the module json names after the try / except.
JsonBackend(e) ==
    IF e.simplejson THEN "simplejson"
    ELSE IF VersionAtLeast(e.version, 2, 6) THEN "json"
    ELSE "None"

\* The finally block without its test of json.
JsonEncodeBindingAlwaysWrapped(json, py3) == "wrapper"

\* Lines 237-245: the finally block's choice of json_encode.
JsonEncodeBinding(json, py3) ==
    IF json # "None" /\ py3 THEN "wrapper" ELSE "_json_encode"

LoadJson ==
    /\ pc = "json"
    /\ LET json == JsonBackend(env)
           codec == IF json = "None" THEN "stub" ELSE json
       IN  bindings' = [bindings EXCEPT !.json = json,
                                        !.json_decode = codec,
                                        !._json_encode = codec,
                                        !.json_encode = JsonEncodeBinding(json, PY3(env))]
    /\ pc' = "next"
    /\ UNCHANGED <<env, loadError, call, threads, lastSet, macVars>>

\* Lines 266-272: the built-in next came with Python 2.6.
LoadNext ==
    /\ pc = "next"
    /\ bindings' = [bindings EXCEPT !.next =
            IF VersionAtLeast(env.version, 2, 6) THEN "builtin" ELSE "method"]
    /\ pc' = "loaded"
    /\ UNCHANGED <<env, loadError, call, threads, lastSet, macVars>>

---------------------------------------------------------------------------
(* The exported operations, called once the module is loaded.  A caller    *)
(* holds one outcome (and the generator json_encode gave it) until it      *)
(* drops it.                                                               *)

Native(v) == [t |-> NativeKind(PY3(env)), d |-> v]

CanCall == pc = "loaded" /\ call.op = "idle"

CallNtob ==
    /\ CanCall
    /\ \E n \in PyValues, e \in TextEncodings :
          call' = [Idle EXCEPT !.op = "ntob", !.arg = n, !.enc = e,
                               !.res = Ntob(bindings.ntob, n, e, PY3(env))]
    /\ UNCHANGED <<env, pc, bindings, loadError, threads, lastSet, macVars>>

CallNtou ==
    /\ CanCall
    /\ \E n \in PyValues, e \in TextEncodings :
          call' = [Idle EXCEPT !.op = "ntou", !.arg = n, !.enc = e,
                               !.res = Ntou(bindings.ntou, n, e, PY3(env))]
    /\ UNCHANGED <<env, pc, bindings, loadError, threads, lastSet, macVars>>

CallTonative ==
    /\ CanCall
    /\ \E n \in PyValues, e \in TextEncodings :
          call' = [Idle EXCEPT !.op = "tonative", !.arg = n, !.enc = e,
                               !.res = Tonative(bindings.tonative, n, e)]
    /\ UNCHANGED <<env, pc, bindings, loadError, threads, lastSet, macVars>>

CallBase64Decode ==
    /\ CanCall
    /\ \E n \in B64Inputs, e \in TextEncodings :
          call' = [Idle EXCEPT !.op = "base64_decode", !.arg = n, !.enc = e,
                               !.res = Base64Decode(n, e, PY3(env))]
    /\ UNCHANGED <<env, pc, bindings, loadError, threads, lastSet, macVars>>

CallUnquoteQs ==
    /\ CanCall
    /\ \E a \in Atoms, e \in QsEncodings, p \in ErrorPolicies :
          call' = [Idle EXCEPT !.op = "unquote_qs", !.arg = Native(a), !.enc = e,
                               !.errors = p,
                               !.res = UnquoteQs(bindings.unquote_qs, a, e, p)]
    /\ UNCHANGED <<env, pc, bindings, loadError, threads, lastSet, macVars>>

\* json_decode resolving its backend again at the call.
CallJsonDecodeRebinding ==
    /\ CanCall
    /\ \E s \in JsonTexts :
          call' = [Idle EXCEPT !.op = "json_decode", !.arg = Native(s),
                               !.res = JsonDecode(bindings.json_decode, Native(s))]
    /\ bindings' = [bindings EXCEPT !.json_decode =
            IF VersionAtLeast(env.version, 2, 6) THEN "json" ELSE "stub"]
    /\ UNCHANGED <<env, pc, loadError, threads, lastSet, macVars>>

CallJsonDecode ==
    /\ CanCall
    /\ \E s \in JsonTexts :
          call' = [Idle EXCEPT !.op = "json_decode", !.arg = Native(s),
                               !.res = JsonDecode(bindings.json_decode, Native(s))]
    /\ UNCHANGED <<env, pc, bindings, loadError, threads, lastSet, macVars>>

CallJsonEncode ==
    /\ CanCall
    /\ \E v \in JsonValues :
          LET r == JsonEncode(bindings.json_encode, bindings._json_encode, v)
          IN  call' = [Idle EXCEPT !.op = "json_encode", !.arg = v, !.res = r.res,
                                   !.gen = r.gen]
    /\ UNCHANGED <<env, pc, bindings, loadError, threads, lastSet, macVars>>

\* next(i) on the generator the caller holds.
CallNext ==
    /\ pc = "loaded"
    /\ call.gen.active
    /\ LET r == NextItem(bindings.next, call.gen, PY3(env))
       IN  call' = [call EXCEPT !.op = "next", !.res = r.res, !.gen = r.gen]
    /\ UNCHANGED <<env, pc, bindings, loadError, threads, lastSet, macVars>>

CallGetDaemon ==
    /\ CanCall
    /\ \E t \in Threads :
          call' = [Idle EXCEPT !.op = "get_daemon", !.thr = t,
                               !.res = GetDaemon(bindings.get_daemon, threads[t],
                                                 HasDaemonProperty(env))]
    /\ UNCHANGED <<env, pc, bindings, loadError, threads, lastSet, macVars>>

CallSetDaemon ==
    /\ CanCall
    /\ \E t \in Threads, v \in BOOLEAN :
          /\ threads' = [threads EXCEPT ![t] =
                SetDaemon(bindings.set_daemon, threads[t], v, HasDaemonProperty(env))]
          /\ lastSet' = [lastSet EXCEPT ![t] = BoolStr(v)]
          /\ call' = [Idle EXCEPT !.op = "set_daemon", !.thr = t, !.arg = Bool(v),
                                  !.res = Ret([t |-> "none", d |-> <<>>])]
    /\ UNCHANGED <<env, pc, bindings, loadError, macVars>>

CallRandom20 ==
    /\ CanCall
    /\ \E b \in EntropySamples :
          call' = [Idle EXCEPT !.op = "random20", !.res = Random20(b)]
    /\ UNCHANGED <<env, pc, bindings, loadError, threads, lastSet, macVars>>

\* The caller drops the outcome it holds.
Return ==
    /\ pc = "loaded"
    /\ call.op # "idle"
    /\ call' = Idle
    /\ UNCHANGED <<env, pc, bindings, loadError, threads, lastSet, macVars>>

Next ==
    \/ LoadText
    \/ LoadBase64
    \/ LoadImports
    \/ LoadDaemon
    \/ LoadUnquoteQs
    \/ LoadJson
    \/ LoadNext
    \/ CallNtob
    \/ CallNtou
    \/ CallTonative
    \/ CallBase64Decode
    \/ CallUnquoteQs
    \/ CallJsonDecode
    \/ CallJsonEncode
    \/ CallNext
    \/ CallGetDaemon
    \/ CallSetDaemon
    \/ CallRandom20
    \/ Return

Spec == Init /\ [][Next]_vars

---------------------------------------------------------------------------
(* utils.get_mac: the poll loop on Network.MacAddress.                     *)

\* count < 360
MaxPolls == 360

\* xbmc.sleep(1000)
SleepMs == 1000

\* The info label's readings: empty, Busy, and an address 0A:1B.
Readings == {<<>>, <<66, 117, 115, 121>>, <<48, 65, 58, 49, 66>>}

\* str.lower() on ASCII.
Lower(s) == [i \in 1..Len(s) |-> IF s[i] >= 65 /\ s[i] <= 90 THEN s[i] + 32 ELSE s[i]]

\* ":" in mac
HasColon(s) == \E i \in 1..Len(s) : s[i] = 58

\* The loop test with <= for <.
LoopCondInclusive(m, c) == ~HasColon(m) /\ c <= MaxPolls

\* while ":" not in mac and count < 360
LoopCond(m, c) == ~HasColon(m) /\ c < MaxPolls

\* Lines 45-46.
GetMacCall ==
    /\ mac_pc \in {"idle", "done"}
    /\ mac_pc' = "loop"
    /\ count' = 0
    /\ mac' = <<>>
    /\ polls' = 0
    /\ sleptMs' = 0
    /\ lastReading' = <<>>
    /\ colonAt' = 0
    /\ macLog' = "none"
    /\ UNCHANGED compatVars

\* Lines 47-50: the test holds; log, read the label lower-cased, count.
GetMacPoll ==
    /\ mac_pc = "loop"
    /\ LoopCond(mac, count)
    /\ \E r \in Readings :
          /\ mac' = Lower(r)
          /\ lastReading' = r
          /\ colonAt' = IF colonAt = 0 /\ HasColon(r) THEN polls + 1 ELSE colonAt
    /\ count' = count + 1
    /\ polls' = polls + 1
    /\ macLog' = "Waiting for mac address..."
    /\ mac_pc' = "sleep"
    /\ UNCHANGED <<sleptMs, compatVars>>

\* Line 51.
GetMacSleep ==
    /\ mac_pc = "sleep"
    /\ sleptMs' = sleptMs + SleepMs
    /\ mac_pc' = "loop"
    /\ UNCHANGED <<count, mac, polls, lastReading, colonAt, macLog, compatVars>>

\* Lines 52-56: the test fails; log the outcome and return mac.
GetMacReturn ==
    /\ mac_pc = "loop"
    /\ ~LoopCond(mac, count)
    /\ macLog' = IF mac = <<>> THEN "Mac detection failed!" ELSE "Detected Mac-Address: %s"
    /\ mac_pc' = "done"
    /\ UNCHANGED <<count, mac, polls, sleptMs, lastReading, colonAt, compatVars>>

MacInit ==
    /\ env = [version |-> <<2, 6>>, simplejson |-> FALSE, py3modules |-> TRUE]
    /\ pc = "text"
    /\ bindings = Unbound
    /\ loadError = "none"
    /\ call = Idle
    /\ threads = [t \in Threads |-> NewThread(t = "t2")]
    /\ lastSet = [t \in Threads |-> "none"]
    /\ MacIdle

MacNext ==
    \/ GetMacCall
    \/ GetMacPoll
    \/ GetMacSleep
    \/ GetMacReturn

MacSpec == MacInit /\ [][MacNext]_vars

\* A call of get_mac that has started runs on: nothing else holds its thread.
MacFairSpec ==
    /\ MacSpec
    /\ WF_vars(GetMacPoll)
    /\ WF_vars(GetMacSleep)
    /\ WF_vars(GetMacReturn)

---------------------------------------------------------------------------
(* Properties of get_mac.                                                  *)

\* C1: get_mac returns the empty text on timeout: when none of the 360
\* polled readings contains ":", the value returned is empty.
C1_EmptyOnTimeout ==
    (mac_pc = "done" /\ polls = MaxPolls /\ colonAt = 0) => mac = <<>>

\* What holds of every state of a call of get_mac.
MacInvariant ==
    /\ polls = count
    /\ count <= MaxPolls
    /\ mac = Lower(lastReading)
    /\ colonAt # 0 => colonAt = polls /\ HasColon(mac)
    /\ mac_pc = "sleep" => polls >= 1 /\ sleptMs = SleepMs * (polls - 1)
    /\ mac_pc = "loop" => sleptMs = SleepMs * polls
    /\ mac_pc = "done" =>
          /\ polls >= 1
          /\ polls <= MaxPolls
          /\ sleptMs = SleepMs * polls
          /\ colonAt = 0 => polls = MaxPolls

\* C10: get_mac always terminates, after at least 1 and at most 360 polls;
\* it polls again only while the last reading holds no ":" and fewer than
\* 360 polls were made, stops at the first reading with ":" and returns that
\* reading lower-cased, and sleeps 1 second after every poll.
C10_TerminatesWithinPolls ==
    /\ []MacInvariant
    /\ [][polls' = polls + 1 => ~HasColon(mac) /\ polls < MaxPolls]_vars
    /\ (mac_pc = "loop") ~> (mac_pc = "done")

\* get_mac returned on its 360th poll, whose reading was the first with ":".
C10_Witness ==
    /\ mac_pc = "done"
    /\ polls = MaxPolls
    /\ colonAt = MaxPolls
    /\ mac = <<48, 97, 58, 49, 98>>

---------------------------------------------------------------------------
(* Properties of the compatibility layer.                                  *)

IsNativeArg == call.arg.t = NativeKind(PY3(env))

\* toText(toBytes(s, e), e) with the names as bound.
RoundTrip(s, e) ==
    LET b == Ntob(bindings.ntob, s, e, PY3(env))
    IN  IF b.exc # "none" THEN b ELSE Ntou(bindings.ntou, b.val, e, PY3(env))

\* Python's == on two strings: on Python 2 a unicode equals a str only when
\* the str is ASCII with the same characters; on Python 3 bytes never equal
\* a str.
PyEq(a, b) ==
    IF a.t = b.t THEN a.d = b.d
    ELSE /\ ~PY3(env)
         /\ {a.t, b.t} = {"bytes", "text"}
         /\ SeqAll(a.d, 0, 127)
         /\ a.d = b.d

\* C2 as stated: for every native s and encoding e, under either text model,
\* toText(toBytes(s, e), e) completes and equals toNative(s, e).
C2_RoundTripEqualsNative ==
    (pc = "loaded" /\ call.op = "ntob" /\ IsNativeArg) =>
        LET rt == RoundTrip(call.arg, call.enc)
            tn == Tonative(bindings.tonative, call.arg, call.enc)
        IN  /\ rt.exc = "none"
            /\ tn.exc = "none"
            /\ PyEq(rt.val, tn.val)

\* C2 amended, for the encodings ISO-8859-1, ascii, utf-8 and the 'escape'
\* token: toNative(s, e) is s under both models.  On the byte-oriented
\* model toBytes(s, e) is s and toText of it either raises
\* UnicodeDecodeError (ValueError for a bad 'escape') or is the decoded text
\* of s, which, for the three real encodings, toNative encodes back to s
\* and which equals s itself when s is ASCII.  On the code-point-oriented
\* model toBytes(s, e) is a byte string or fails to encode, and toText
\* rejects the byte string with the TypeError of assert_native: the
\* composition never completes.
C2_RoundTripByModel ==
    (pc = "loaded" /\ call.op = "ntob" /\ IsNativeArg) =>
        LET s == call.arg
            e == call.enc
            rt == RoundTrip(s, e)
            tn == Tonative(bindings.tonative, s, e)
        IN  /\ tn = Ret(s)
            /\ PY3(env) =>
                  /\ call.res.exc \in {"none", "UnicodeEncodeError", "LookupError"}
                  /\ call.res.exc = "none" =>
                        /\ call.res.val.t = "bytes"
                        /\ rt.exc = "TypeError"
                        /\ rt.got = "bytes"
                  /\ call.res.exc # "none" => rt = call.res
            /\ ~PY3(env) =>
                  /\ call.res = Ret(s)
                  /\ rt.exc \in {"none", "UnicodeDecodeError", "ValueError"}
                  /\ rt.exc = "ValueError" => e = "escape"
                  /\ rt.exc = "none" => rt.val.t = "text"
                  /\ (rt.exc = "none" /\ e # "escape") =>
                        /\ Tonative(bindings.tonative, rt.val, e) = Ret(s)
                        /\ SeqAll(s.d, 0, 127) => PyEq(rt.val, tn.val)

\* On Python 2, the UTF-8 bytes of e-acute went through toBytes.
C2_Witness ==
    /\ pc = "loaded"
    /\ ~PY3(env)
    /\ call.op = "ntob"
    /\ call.arg = Bytes(<<195, 169>>)
    /\ call.enc = "utf-8"
    /\ RoundTrip(call.arg, call.enc) = Ret(Text(<<233>>))

\* type(n).__name__ of the values that are not native, spelt out.
ExpectedTypeName ==
    CASE call.arg.t = "int" -> "int"
      [] call.arg.t = "none" -> "NoneType"
      [] call.arg.t = "bytes" -> "bytes"
      [] call.arg.t = "text" -> "unicode"
      [] OTHER -> ""

\* C3: ntob and ntou reject every input that is not of the native string
\* type with a TypeError whose message carries the input's type name, and
\* return nothing; inputs of the native type are never rejected.
C3_RejectsNonNative ==
    (pc = "loaded" /\ call.op \in {"ntob", "ntou"}) =>
        IF IsNativeArg THEN call.res.exc # "TypeError"
        ELSE /\ call.res.exc = "TypeError"
             /\ call.res.msg = "n must be a native str (got %s)"
             /\ call.res.got = ExpectedTypeName
             /\ call.res.val = NoVal

\* On Python 3, ntou was handed a byte string.
C3_Witness ==
    /\ pc = "loaded"
    /\ PY3(env)
    /\ call.op = "ntou"
    /\ call.arg = Bytes(<<65>>)
    /\ call.res.exc = "TypeError"
    /\ call.res.got = "bytes"

JsonResolved == pc \in {"next", "loaded"}

StdlibJson == env.version \in {<<2, 6>>, <<3, 0>>, <<3, 8>>}

\* C4: the JSON bindings follow a strict priority: simplejson when it is
\* present, else the standard library's json when the version has it, else
\* functions that fail; encode and decode are bound to the same backend.
C4_JsonPriority ==
    JsonResolved =>
        /\ bindings.json_decode = bindings._json_encode
        /\ bindings.json_encode \in {"wrapper", "_json_encode"}
        /\ env.simplejson => bindings.json_decode = "simplejson"
        /\ (~env.simplejson /\ StdlibJson) => bindings.json_decode = "json"
        /\ (~env.simplejson /\ ~StdlibJson) => bindings.json_decode = "stub"

\* Both backends import and simplejson is the one bound.
C4_Witness ==
    /\ pc = "loaded"
    /\ env.simplejson
    /\ StdlibJson
    /\ bindings.json_decode = "simplejson"
    /\ bindings._json_encode = "simplejson"

NoBackend == ~env.simplejson /\ ~StdlibJson

C6_ChunksAreBytes ==
    (pc = "loaded" /\ ~NoBackend /\ call.op \in {"json_encode", "next"}) =>
        LET g == call.gen
            src == BackendIterEncode(call.arg).chunks
        IN  /\ g.source = src
            /\ Len(g.produced) + Len(g.pending) = Len(src)
            /\ \A i \in 1..Len(g.produced) :
                  g.produced[i] =
                      IF PY3(env) THEN Bytes(Utf8Enc(src[i]))
                      ELSE [t |-> "bytes", d |-> src[i]]
            /\ (call.op = "next" /\ call.res.exc = "none") =>
                  call.res.val = g.produced[Len(g.produced)]

\* On Python 3 the five chunks of {"k": 1} were all yielded.
C6_Witness ==
    /\ pc = "loaded"
    /\ PY3(env)
    /\ call.op = "next"
    /\ call.arg = JsonDoc(DictK1)
    /\ Len(call.gen.produced) = 5
    /\ call.res = Ret(Bytes(<<125>>))

\* C7: unquote_qs gives the same output on both code paths for every atom,
\* encoding and errors policy, and on both a "+" and a %20 give a space
\* while %2B gives a "+".
C7_SameOutputOnBothPaths ==
    (pc = "loaded" /\ call.op = "unquote_qs") =>
        LET a == call.arg.d
            viaParse == UnquoteQsPy3(a, call.enc, call.errors)
            viaDecode == UnquoteQsPy2(a, call.enc, call.errors)
        IN  /\ viaParse = viaDecode
            /\ call.res = viaParse
            /\ (call.enc = "utf-8" /\ a \in {<<43>>, <<37, 50, 48>>}) =>
                  call.res = Ret(Text(<<32>>))
            /\ (call.enc = "utf-8" /\ a = <<37, 50, 66>>) =>
                  call.res = Ret(Text(<<43>>))

\* C8: after set_daemon(t, v), get_daemon(t) returns v under either
\* variant, and both accessors are bound from the same variant.
C8_DaemonRoundTrip ==
    /\ pc \in {"unquote_qs", "json", "next", "loaded"} =>
          /\ bindings.get_daemon = bindings.set_daemon
          /\ bindings.get_daemon \in {"property", "legacy"}
    /\ (call.op = "get_daemon" /\ lastSet[call.thr] # "none") =>
          call.res = Ret(Bool(lastSet[call.thr] = "True"))

\* Under the legacy variant, t1 was made a daemon and then asked.
C8_Witness ==
    /\ pc = "loaded"
    /\ bindings.get_daemon = "legacy"
    /\ call.op = "get_daemon"
    /\ call.thr = "t1"
    /\ lastSet["t1"] = "True"
    /\ call.res = Ret(Bool(TRUE))

=============================================================================
